---- MODULE Spec2Model ----
(***************************************************************************)
(* FEMA Public Assistance ETL (src/etl/etl.py): the sync engine as a      *)
(* state machine.  Instants are milliseconds since 2025-03-01T00:00:00Z;  *)
(* ISO-8601 strings are sequences of character codes, rendered and parsed *)
(* the way datetime.isoformat() and the remote source do.                 *)
(***************************************************************************)
EXTENDS Integers, Sequences, FiniteSets, TLC

VARIABLES
    batchSize,   \* BATCH_SIZE (etl.py:45)
    loadMode,    \* LOAD_MODE, "upsert" | "replace" (etl.py:44)
    pollOnce,    \* POLL_ONCE (etl.py:49)
    tzOff,       \* UTC offset, in minutes, of the session db_watermark() read in
    source,      \* the remote data set: a sequence of raw records
    now,         \* the wall clock, an instant
    landing,     \* landing table: set of rows [hash, raw, lastrefresh]
    flat,        \* flat table: set of rows [hash, lastrefresh, cols, raw]
    pc,          \* position of main()/run_cycle()
    phase,       \* "none" | "full" | "incr": which fetch loop is running
    skip,        \* local skip of the fetch loop
    total,       \* local total of the fetch loop
    params,      \* the params dict handed to http_get for the current page
    attempt,     \* loop variable of http_get
    wm,          \* wm_q of run_cycle: quoted ISO string, <<>> before it is set
    dbwm,        \* db_wm of run_cycle, as read by db_watermark()
    cycles,      \* number of cycles main() has started
    cycleErr,    \* the exception main() caught from the last run_cycle, or "none"
    synced,      \* sync_flat_from_landing ran in the current cycle
    pageLog,     \* params of every request issued for the latest page, in order
    onlyTransient, \* every response to the latest page so far was a transient failure
    fetchLog,    \* skip offsets of the pages the current fetch asked for, in order
    sunk,        \* records handed to upsert_landing by the current fetch, in order
    result,      \* return value of the last completed fetch, -1 before
    lastResp,    \* the last response http_get saw in this cycle
    lastSleep,   \* the sleep _sleep_backoff performed after lastResp
    landingAtPage, \* landing when the current page's first request was issued
    lastMerge,   \* the last upsert_landing call: rows given, count returned
    lastBatch,   \* the batch last handed to upsert_landing (store-level runs)
    afterOnce,   \* landing right after the first merge of lastBatch
    reps,        \* how many times in a row lastBatch has been merged
    httpOut,     \* how the http_get call of the last response ended:
                 \* "pending" (it loops on) | "body" | "None" | "raised"
    proj,        \* the last sync_flat_from_landing run: flat before it, landing
                 \* it read, its rowcount, runs in a row over that landing
    trace,       \* steps run_cycle took in the current cycle, what
                 \* landing_count() == 0 gave at its bootstrap decision, and
                 \* whether the cycle before ended in an exception
    inst         \* the instances of a double run: position and pages merged

vars == <<batchSize, loadMode, pollOnce, tzOff, source, now, landing, flat, pc,
          phase, skip, total, params, attempt, wm, dbwm, cycles, cycleErr,
          synced, pageLog, onlyTransient, fetchLog, sunk, result, lastResp, lastSleep,
          landingAtPage, lastMerge, lastBatch,
          afterOnce, reps, httpOut, proj, trace, inst>>

----------------------------------------------------------------------------
(* Program constants *)

MAX_TOP == 1000
MAX_RETRIES == 5
POLL_INTERVAL == 86400
BACKOFF_CAP == 60

(* Bounds of the model *)

MaxRecs == 3      \* records in the remote data set, single-fetch runs
MaxSrc == 2       \* records in the remote data set, whole-cycle runs
MaxCycles == 2    \* cycles main() starts before the model stops it
MaxBatch == 2     \* records in a batch of the store-level runs
MaxReps == 2      \* repeated merges of one batch
MaxPages == 2     \* pages an instance of a double run merges in one cycle

Min(a, b) == IF a <= b THEN a ELSE b

RECURSIVE Pow2(_)
Pow2(n) == IF n = 0 THEN 1 ELSE 2 * Pow2(n - 1)

----------------------------------------------------------------------------
(* Time and ISO-8601 text *)

SEC    == 1000
MINUTE == 60 * SEC
HOUR   == 60 * MINUTE
DAY    == 24 * HOUR

\* the instant of 2025-03-<d>T<h>:<m>:<s>.<ms>Z
At(d, h, m, s, ms) == (d - 1) * DAY + h * HOUR + m * MINUTE + s * SEC + ms

D2(n) == <<48 + (n \div 10), 48 + (n % 10)>>
D3(n) == <<48 + (n \div 100), 48 + ((n \div 10) % 10), 48 + (n % 10)>>
Num2(s, i) == (s[i] - 48) * 10 + (s[i + 1] - 48)
Num3(s, i) == (s[i] - 48) * 100 + (s[i + 1] - 48) * 10 + (s[i + 2] - 48)

\* character codes of ' + - . : T Z
Ch == [quote |-> 39, plus |-> 43, minus |-> 45, dot |-> 46, colon |-> 58,
       T |-> 84, Z |-> 90]
YearMonth == <<50, 48, 50, 53, 45, 48, 51, 45>>   \* "2025-03-"

\* str(utcoffset): "+HH:MM" or "-HH:MM"
OffsetText(off) ==
    LET a == IF off < 0 THEN 0 - off ELSE off
    IN  <<IF off < 0 THEN Ch.minus ELSE Ch.plus>> \o D2(a \div 60)
            \o <<Ch.colon>> \o D2(a % 60)

\* datetime.isoformat() of instant t carried in a time zone of offset off:
\* the fraction is printed only when the microsecond part is not zero
IsoFormat(t, off) ==
    LET loc == t + off * MINUTE
        r   == loc % DAY
        ms  == r % SEC
    IN  YearMonth \o D2((loc \div DAY) + 1) \o <<Ch.T>>
            \o D2(r \div HOUR) \o <<Ch.colon>>
            \o D2((r % HOUR) \div MINUTE) \o <<Ch.colon>>
            \o D2((r % MINUTE) \div SEC)
            \o (IF ms = 0 THEN <<>> ELSE <<Ch.dot>> \o D3(ms) \o <<48, 48, 48>>)
            \o OffsetText(off)

\* s.replace('+00:00','Z'): the only place isoformat puts "+00:00" is the end
ReplaceUtc(s) ==
    LET n == Len(s)
    IN  IF n >= 6 /\ SubSeq(s, n - 5, n) = OffsetText(0)
        THEN SubSeq(s, 1, n - 6) \o <<Ch.Z>>
        ELSE s

Quoted(s) == <<Ch.quote>> \o s \o <<Ch.quote>>

\* Python's str comparison: by code point, a proper prefix is the smaller
RECURSIVE StrLess(_, _)
StrLess(a, b) ==
    IF b = <<>> THEN FALSE
    ELSE IF a = <<>> THEN TRUE
    ELSE IF Head(a) # Head(b) THEN Head(a) < Head(b)
    ELSE StrLess(Tail(a), Tail(b))

\* max(a, b) of two str: b only when it is strictly greater
StrMax(a, b) == IF StrLess(a, b) THEN b ELSE a

\* the instant a quoted ISO-8601 text denotes (what the remote source's
\* filter compares against)
ParseIso(q) ==
    LET s    == SubSeq(q, 2, Len(q) - 1)
        frac == Len(s) >= 20 /\ s[20] = Ch.dot
        ms   == IF frac THEN Num3(s, 21) ELSE 0
        p    == IF frac THEN 27 ELSE 20
        off  == IF s[p] = Ch.Z THEN 0
                ELSE (IF s[p] = Ch.minus THEN -1 ELSE 1)
                        * (Num2(s, p + 1) * 60 + Num2(s, p + 4))
    IN  At(Num2(s, 9), Num2(s, 12), Num2(s, 15), Num2(s, 18), ms) - off * MINUTE

----------------------------------------------------------------------------
(* Values *)

\* a JSON value of a record's lastRefresh key: absent/null, "", an ISO
\* string denoting instant t, or a string that is no timestamp
JNone     == [k |-> "none",  t |-> 0]
JEmpty    == [k |-> "empty", t |-> 0]
JTs(t)    == [k |-> "ts",    t |-> t]
JBad      == [k |-> "bad",   t |-> 0]

\* a timestamptz column value
NULL   == [k |-> "null", t |-> 0]
Ts(t)  == [k |-> "ts",   t |-> t]

\* obj.get("hash") of a record without the key
NoHash == "<None>"

Rec(h, lr, d) == [hash |-> h, lastRefresh |-> lr, data |-> d]

----------------------------------------------------------------------------
(* DB helpers *)

\* mutant: the bootstrap runs whatever landing holds
LandingEmpty_AnyCount(land) == TRUE

\* landing_count() == 0
LandingEmpty(land) == land = {}

\* SELECT MAX(lastrefresh): NULLs are ignored, no non-null row gives NULL
db_watermark(land) ==
    LET S == {r.lastrefresh.t : r \in {x \in land : x.lastrefresh # NULL}}
    IN  IF S = {} THEN NULL ELSE Ts(CHOOSE m \in S : \A x \in S : x <= m)

\* mutant: only a missing key is skipped, an empty hash is stored
HashMissing_OnlyNone(h) == h = NoHash

\* if not h: continue
HashMissing(h) == h = NoHash \/ h = ""

\* NULLIF(:lastrefresh,'')::timestamptz
CastLastRefresh(j) == IF j.k = "ts" THEN Ts(j.t) ELSE NULL

\* mutant: NULLIF in place of COALESCE
MergeLastRefresh_NullIf(excluded, existing) ==
    IF excluded = existing THEN NULL ELSE excluded

\* COALESCE(EXCLUDED.lastrefresh, landing.lastrefresh)
MergeLastRefresh(excluded, existing) ==
    IF excluded # NULL THEN excluded ELSE existing

\* one row of the executemany: INSERT ... ON CONFLICT (hash) DO UPDATE
UpsertRow(land, p) ==
    LET lr  == CastLastRefresh(p.lastrefresh)
        old == {r \in land : r.hash = p.hash}
    IN  IF old = {}
        THEN land \cup {[hash |-> p.hash, raw |-> p.raw, lastrefresh |-> lr]}
        ELSE (land \ old) \cup
             {[hash |-> p.hash, raw |-> p.raw,
               lastrefresh |-> MergeLastRefresh(lr, r.lastrefresh)] : r \in old}

RECURSIVE UpsertAll(_, _)
UpsertAll(land, payload) ==
    IF payload = <<>> THEN land
    ELSE UpsertAll(UpsertRow(land, Head(payload)), Tail(payload))

\* the payload list built by the for loop of upsert_landing
RECURSIVE Payload(_)
Payload(rows) ==
    IF rows = <<>> THEN <<>>
    ELSE (IF HashMissing(Head(rows).hash) THEN <<>>
          ELSE <<[hash |-> Head(rows).hash, raw |-> Head(rows),
                  lastrefresh |-> Head(rows).lastRefresh]>>)
         \o Payload(Tail(rows))

\* upsert_landing(rows): the new landing, the returned count, and whether the
\* statement raised (a text that is no timestamp fails the cast; the
\* transaction of ENGINE.begin() then rolls every row of the batch back)
upsert_landing(land, rows) ==
    LET payload == Payload(rows)
        bad     == \E i \in 1..Len(payload) : payload[i].lastrefresh.k = "bad"
    IN  IF payload = <<>> THEN [landing |-> land, n |-> 0, err |-> FALSE]
        ELSE IF bad THEN [landing |-> land, n |-> 0, err |-> TRUE]
        ELSE [landing |-> UpsertAll(land, payload), n |-> Len(payload),
              err |-> FALSE]

\* NULLIF(l.raw->>'<field>','')::<type>, for the typed columns
ProjectCols(raw) == IF raw.data = "" THEN "NULL" ELSE raw.data

\* mutant: any landing timestamp that differs from flat's selects the row
SyncSelected_NotEqual(land, fl) ==
    {l \in land :
        \/ ~ \E f \in fl : f.hash = l.hash
        \/ \E f \in fl : /\ f.hash = l.hash
                         /\ l.lastrefresh # NULL
                         /\ f.lastrefresh # NULL
                         /\ l.lastrefresh.t # f.lastrefresh.t}

\* mutant: >= in place of >
SyncSelected_GreaterOrEqual(land, fl) ==
    {l \in land :
        \/ ~ \E f \in fl : f.hash = l.hash
        \/ \E f \in fl : /\ f.hash = l.hash
                         /\ l.lastrefresh # NULL
                         /\ f.lastrefresh # NULL
                         /\ l.lastrefresh.t >= f.lastrefresh.t}

\* mutant: no WHERE clause, every landing row is selected
SyncSelected_All(land, fl) == land

\* the SELECT of sync_flat_from_landing: landing rows absent from flat, or
\* with l.lastrefresh > f.lastrefresh (NULL on either side selects nothing)
SyncSelected(land, fl) ==
    {l \in land :
        \/ ~ \E f \in fl : f.hash = l.hash
        \/ \E f \in fl : /\ f.hash = l.hash
                         /\ l.lastrefresh # NULL
                         /\ f.lastrefresh # NULL
                         /\ l.lastrefresh.t > f.lastrefresh.t}

\* the SELECT list: the flat row a landing row projects to
FlatRow(l) ==
    [hash |-> l.hash, lastrefresh |-> l.lastrefresh,
     cols |-> ProjectCols(l.raw), raw |-> l.raw]

\* sync_flat_from_landing(): INSERT ... SELECT ... ON CONFLICT DO UPDATE
sync_flat_from_landing(land, fl) ==
    LET sel == SyncSelected(land, fl)
    IN  [flat |-> {f \in fl : ~ \E l \in sel : l.hash = f.hash}
                  \cup {FlatRow(l) : l \in sel},
         changed |-> Cardinality(sel)]

\* mutant: only the landing table is truncated
truncate_if_replace_LandingOnly(mode, land, fl) ==
    IF mode # "replace" THEN [landing |-> land, flat |-> fl]
    ELSE [landing |-> {}, flat |-> fl]

\* truncate_if_replace(): both TRUNCATEs in the one transaction of
\* ENGINE.begin()
truncate_if_replace(mode, land, fl) ==
    IF mode # "replace" THEN [landing |-> land, flat |-> fl]
    ELSE [landing |-> {}, flat |-> {}]

\* the record of a sync_flat_from_landing() run over land and fl, p the
\* record of the run before
ProjRun(land, fl, p) ==
    [op |-> "sync", before |-> fl, land |-> land,
     changed |-> sync_flat_from_landing(land, fl).changed,
     runs |-> IF p.op = "sync" /\ p.land = land THEN Min(p.runs + 1, 2) ELSE 1]

----------------------------------------------------------------------------
(* Watermark *)

\* the instant of 00:00:00 UTC of the UTC day of t
TodayStart(t) == (t \div DAY) * DAY

\* today_midnight_iso_quoted()
today_midnight_iso_quoted(t) == Quoted(ReplaceUtc(IsoFormat(TodayStart(t), 0)))

\* run_cycle, "Decide incremental watermark": db_wm is the datetime psycopg2
\* hands back, which carries the session's UTC offset
Watermark(db_wm, t, off) ==
    IF db_wm # NULL
    THEN StrMax(Quoted(ReplaceUtc(IsoFormat(db_wm.t, off))),
                today_midnight_iso_quoted(t))
    ELSE today_midnight_iso_quoted(t)

----------------------------------------------------------------------------
(* Remote data source *)

\* stable insertion of r into a sequence ordered by lastRefresh
RECURSIVE InsertByRefresh(_, _)
InsertByRefresh(r, sq) ==
    IF sq = <<>> THEN <<r>>
    ELSE IF Head(sq).lastRefresh.t <= r.lastRefresh.t
         THEN <<Head(sq)>> \o InsertByRefresh(r, Tail(sq))
         ELSE <<r>> \o sq

\* $orderby=lastRefresh
RECURSIVE OrderByRefresh(_)
OrderByRefresh(sq) ==
    IF sq = <<>> THEN <<>>
    ELSE InsertByRefresh(sq[Len(sq)], OrderByRefresh(SubSeq(sq, 1, Len(sq) - 1)))

\* $filter=lastRefresh ge <quoted ISO>
FilterGe(sq, q) ==
    SelectSeq(sq, LAMBDA r : r.lastRefresh.k = "ts" /\ r.lastRefresh.t >= ParseIso(q))

\* the result set a request's $filter/$orderby select from the data set
ResultSet(src, prm) ==
    IF prm.filter = <<>> THEN src ELSE OrderByRefresh(FilterGe(src, prm.filter))

\* the page $skip/$top cut out of the result set
ServerPage(src, prm) ==
    LET rs == ResultSet(src, prm)
    IN  SubSeq(rs, prm.skip + 1, Min(prm.skip + prm.top, Len(rs)))

----------------------------------------------------------------------------
(* Backoff and paging helpers *)

\* a Retry-After header: absent, a number of seconds, or an HTTP-date
HintAbsent  == [k |-> "absent", v |-> 0]
HintDate    == [k |-> "date",   v |-> 0]
HintSecs(n) == [k |-> "int",    v |-> n]

NoMerge == [given |-> 0, n |-> 0]
NoProj  == [op |-> "none", before |-> {}, land |-> {}, changed |-> 0, runs |-> 0]
NoTrace == [steps |-> <<>>, empty |-> FALSE, prevFailed |-> FALSE]
NoInst  == [i \in {1, 2} |-> [pc |-> "off", pages |-> 0]]
NoSleep == [kind |-> "none", ds |-> 0]
NoResp  == [kind |-> "none", status |-> 0, hint |-> HintAbsent, attempt |-> 0]

\* mutant: the jitter is added to the server's hint too
sleep_backoff_JitterOnHint(att, retry_after, jit) ==
    IF retry_after # 0
    THEN [kind |-> "hint", ds |-> retry_after * 10 + jit]
    ELSE [kind |-> "exp", ds |-> Min(BACKOFF_CAP * 10, Pow2(att) * 10 + jit)]

\* _sleep_backoff(attempt, retry_after): the sleep, in tenths of a second;
\* jit is the draw of random.uniform(0, 1), in tenths
sleep_backoff(att, retry_after, jit) ==
    IF retry_after # 0
    THEN [kind |-> "hint", ds |-> retry_after * 10]
    ELSE [kind |-> "exp", ds |-> Min(BACKOFF_CAP * 10, Pow2(att) * 10 + jit)]

\* mutant: one iteration too many
MoreAttempts_OffByOne(att) == att <= MAX_RETRIES

\* for attempt in range(1, MAX_RETRIES + 1): is there a next iteration
MoreAttempts(att) == att < MAX_RETRIES

\* mutant: the configured size, unclamped
Top_Unclamped(bs) == bs

\* min(BATCH_SIZE, MAX_TOP)
Top(bs) == Min(bs, MAX_TOP)

\* the params dict of full_dump (no filter) and incremental_from
PageParams(ph, sk, bs, w) ==
    [skip |-> sk, top |-> Top(bs),
     orderby |-> IF ph = "incr" THEN "lastRefresh" ELSE "",
     filter  |-> IF ph = "incr" THEN w ELSE <<>>]

\* mutant: a None body is read as no rows, (j or {}).get(...)
RowsOf_NoneIsEmpty(j) ==
    IF j.kind = "list" THEN [err |-> TRUE, rows |-> <<>>]
    ELSE IF j.kind \in {"none", "nokey"} THEN [err |-> FALSE, rows |-> <<>>]
    ELSE [err |-> FALSE, rows |-> j.rows]

\* j.get("PublicAssistanceFundedProjectsDetails", j if isinstance(j, list) else []):
\* None and a bare list have no .get, a dict without the key gives []
RowsOf(j) ==
    IF j.kind \in {"none", "list"} THEN [err |-> TRUE, rows |-> <<>>]
    ELSE IF j.kind = "nokey" THEN [err |-> FALSE, rows |-> <<>>]
    ELSE [err |-> FALSE, rows |-> j.rows]

\* mutant: a full page ends the loop too
ShortPage_OrFull(rows, bs) == Len(rows) <= Top(bs)

\* if len(rows) < min(BATCH_SIZE, MAX_TOP): break
ShortPage(rows, bs) == Len(rows) < Top(bs)

----------------------------------------------------------------------------
(* Input domains *)

BatchSizes == {1, 2, 5000}
LoadModes  == {"upsert", "replace"}
TzOffsets  == {0, 120}
Hints      == {HintAbsent, HintDate, HintSecs(0), HintSecs(10), HintSecs(-1)}
Jitters    == {0, 10}
RateStatus   == {429, 503}
ServerStatus == {500}
ClientStatus == {404}
Shapes       == {"list", "nokey"}

\* the inputs of the whole-cycle runs: one hint, one jitter draw
CycleHints   == {HintAbsent}
CycleJitters == {0}

\* records the remote source may hold: an old one, one of today, and one
\* of today without a hash
SrcRecords ==
    { Rec("h1", JTs(At(8, 12, 0, 0, 0)), "7"),
      Rec("h2", JTs(At(10, 5, 0, 0, 0)), ""),
      Rec(NoHash, JTs(At(10, 3, 0, 0, 0)), "7") }

SeqsUpTo(S, n) == UNION {[1..k -> S] : k \in 0..n}

Datasets      == SeqsUpTo(SrcRecords, MaxRecs)
CycleDatasets == SeqsUpTo(SrcRecords, MaxSrc)

cfg   == <<batchSize, loadMode, pollOnce>>
hist  == <<lastBatch, afterOnce, reps>>
fetch == <<phase, skip, total, params, attempt, pageLog, onlyTransient, fetchLog,
           sunk, result, lastResp, lastSleep, landingAtPage, httpOut>>
obs   == <<proj, trace, inst>>

----------------------------------------------------------------------------
(* The fetch loop: full_dump / incremental_from with http_get *)

\* rate limit, server error, network I/O failure
Transient == {"rate", "server", "neterr"}

\* the first iteration of the while loop of a fetch
BeginFetch(ph, w, land) ==
    /\ phase' = ph
    /\ skip' = 0
    /\ total' = 0
    /\ params' = PageParams(ph, 0, batchSize, w)
    /\ attempt' = 1
    /\ fetchLog' = <<0>>
    /\ sunk' = <<>>
    /\ landingAtPage' = land
    /\ pc' = "fetch"

\* the loop goes round: the next page's params
NextPage(sk, tot, land) ==
    /\ skip' = sk
    /\ total' = tot
    /\ params' = PageParams(phase, sk, batchSize, wm)
    /\ attempt' = 1
    /\ fetchLog' = Append(fetchLog, sk)
    /\ landingAtPage' = land
    /\ pc' = "fetch"
    /\ UNCHANGED <<phase, result, cycleErr>>

\* break; return total
EndFetch(sk, tot) ==
    /\ result' = tot
    /\ skip' = sk
    /\ total' = tot
    /\ pc' = IF phase = "full" THEN "wm" ELSE "sync"
    /\ UNCHANGED <<phase, params, attempt, fetchLog, landingAtPage, cycleErr>>

\* an exception leaves the fetch and run_cycle; main()'s except clause has it
Abort(err) ==
    /\ pc' = "caught"
    /\ cycleErr' = err
    /\ UNCHANGED <<phase, skip, total, params, attempt, fetchLog, sunk, result,
                   landingAtPage, landing>>

\* what full_dump / incremental_from do with the value http_get returned
ProcessBody(j) ==
    LET ro == RowsOf(j)
        u  == upsert_landing(landing, ro.rows)
    IN  IF ro.err THEN Abort("AttributeError") /\ UNCHANGED lastMerge
        ELSE IF ro.rows = <<>>
        THEN EndFetch(skip, total) /\ UNCHANGED <<landing, sunk, lastMerge>>
        ELSE IF u.err THEN Abort("DataError") /\ UNCHANGED lastMerge
        ELSE /\ landing' = u.landing
             /\ sunk' = sunk \o ro.rows
             /\ lastMerge' = [given |-> Len(ro.rows), n |-> u.n]
             /\ IF ShortPage(ro.rows, batchSize)
                THEN EndFetch(skip + Len(ro.rows), total + u.n)
                ELSE NextPage(skip + Len(ro.rows), total + u.n, u.landing)

\* `continue`: the next iteration of the for loop, or, when there is none,
\* http_get falls off its end and returns None
Continue ==
    IF MoreAttempts(attempt)
    THEN /\ attempt' = attempt + 1
         /\ httpOut' = "pending"
         /\ UNCHANGED <<pc, phase, skip, total, params, fetchLog, sunk, result,
                        landingAtPage, landing, cycleErr, lastMerge>>
    ELSE /\ httpOut' = "None"
         /\ ProcessBody([kind |-> "none", rows |-> <<>>])

\* except Exception: raise on the last attempt, else back off and loop
Except(err, jit) ==
    IF attempt = MAX_RETRIES
    THEN /\ lastSleep' = NoSleep
         /\ httpOut' = "raised"
         /\ Abort(err)
         /\ UNCHANGED lastMerge
    ELSE /\ lastSleep' = sleep_backoff(attempt, 0, jit)
         /\ Continue

Request(kind, status, hint) ==
    /\ pc = "fetch"
    /\ pageLog' = Append(IF attempt = 1 THEN <<>> ELSE pageLog, params)
    /\ onlyTransient' = ((attempt = 1 \/ onlyTransient) /\ kind \in Transient)
    /\ lastResp' = [kind |-> kind, status |-> status, hint |-> hint,
                    attempt |-> attempt]
    /\ UNCHANGED <<cfg, tzOff, hist, obs, source, now, flat, wm, dbwm, cycles, synced>>

\* 429 / 503, with or without Retry-After
RespRate(status, hint, jit) ==
    /\ Request("rate", status, hint)
    /\ IF hint.k = "date" \/ hint.v < 0
       THEN \* int() of an HTTP-date, time.sleep() of a negative: ValueError
            Except("ValueError", jit)
       ELSE /\ lastSleep' = sleep_backoff(attempt, hint.v, jit)
            /\ Continue

\* any other status >= 500
RespServer(status, jit) ==
    /\ Request("server", status, HintAbsent)
    /\ lastSleep' = sleep_backoff(attempt, 0, jit)
    /\ Continue

\* a 4xx other than 429: raise_for_status() raises HTTPError
RespClient(status, jit) ==
    /\ Request("client", status, HintAbsent)
    /\ Except("HTTPError", jit)

\* SESSION.get raises (connection error, timeout)
RespNetErr(jit) ==
    /\ Request("neterr", 0, HintAbsent)
    /\ Except("ConnectionError", jit)

\* 200 with a body that is no JSON: r.json() raises
RespMalformed(jit) ==
    /\ Request("malformed", 200, HintAbsent)
    /\ Except("JSONDecodeError", jit)

\* 200 with the page under the documented key
RespOk ==
    /\ Request("ok", 200, HintAbsent)
    /\ lastSleep' = NoSleep
    /\ httpOut' = "body"
    /\ ProcessBody([kind |-> "dict", rows |-> ServerPage(source, params)])

\* 200 with a JSON body of another shape: a bare array, or an object
\* without the key
RespOther(shape) ==
    /\ Request(shape, 200, HintAbsent)
    /\ lastSleep' = NoSleep
    /\ httpOut' = "body"
    /\ ProcessBody([kind |-> shape, rows |-> ServerPage(source, params)])

----------------------------------------------------------------------------
(* run_cycle and main *)

\* main(): run_cycle() is called; truncate_if_replace, then the bootstrap
\* decision on landing_count()
StartCycle ==
    /\ pc = "main"
    /\ cycles < MaxCycles
    /\ cycles' = cycles + 1
    /\ cycleErr' = "none"
    /\ synced' = FALSE
    /\ LET tr   == truncate_if_replace(loadMode, landing, flat)
           land == tr.landing
       IN  /\ landing' = land
           /\ flat' = tr.flat
           /\ trace' = [steps |-> (IF loadMode = "replace" THEN <<"truncate">> ELSE <<>>)
                                   \o (IF LandingEmpty(land) THEN <<"full">> ELSE <<>>),
                        empty |-> land = {},
                        prevFailed |-> cycleErr # "none"]
           /\ IF LandingEmpty(land)
              THEN BeginFetch("full", <<>>, land)
              ELSE /\ pc' = "wm"
                   /\ UNCHANGED <<phase, skip, total, params, attempt, fetchLog,
                                  sunk, landingAtPage>>
    /\ pageLog' = <<>>
    /\ onlyTransient' = FALSE
    /\ lastResp' = NoResp
    /\ lastSleep' = NoSleep
    /\ httpOut' = "pending"
    /\ proj' = IF loadMode = "replace" THEN NoProj ELSE proj
    /\ UNCHANGED <<cfg, tzOff, hist, inst, source, now, wm, dbwm, result, lastMerge>>

\* run_cycle: db_watermark(), the watermark decision, incremental_from(wm_q)
ResolveWatermark(off) ==
    /\ pc = "wm"
    /\ dbwm' = db_watermark(landing)
    /\ tzOff' = off
    /\ wm' = Watermark(dbwm', now, off)
    /\ BeginFetch("incr", wm', landing)
    /\ httpOut' = "pending"
    /\ trace' = [trace EXCEPT !.steps = @ \o <<"wm", "incr">>]
    /\ UNCHANGED <<cfg, hist, proj, inst, source, now, landing, flat, cycles, cycleErr,
                   synced, result, pageLog, onlyTransient, lastResp, lastSleep,
                   lastMerge>>

\* run_cycle: sync_flat_from_landing(), and run_cycle returns
Sync ==
    /\ pc = "sync"
    /\ flat' = sync_flat_from_landing(landing, flat).flat
    /\ proj' = ProjRun(landing, flat, proj)
    /\ trace' = [trace EXCEPT !.steps = @ \o <<"sync">>]
    /\ synced' = TRUE
    /\ pc' = "caught"
    /\ UNCHANGED <<cfg, tzOff, hist, inst, source, now, landing, phase, skip, total,
                   params, attempt, wm, dbwm, cycles, cycleErr, fetchLog, sunk, result,
                   pageLog, onlyTransient, lastResp, lastSleep, landingAtPage,
                   lastMerge, httpOut>>

\* mutant: the loop ends when the cycle raised
AfterCycle_BreakOnError ==
    /\ pc = "caught"
    /\ IF pollOnce \/ cycleErr # "none"
       THEN pc' = "done" /\ now' = now
       ELSE pc' = "main" /\ now' = now + POLL_INTERVAL * SEC
    /\ UNCHANGED <<cfg, tzOff, hist, obs, source, landing, flat, phase, skip, total,
                   params, attempt, wm, dbwm, cycles, cycleErr, synced, fetchLog, sunk,
                   result, pageLog, onlyTransient, lastResp, lastSleep, landingAtPage,
                   lastMerge, httpOut>>

\* main(): if POLL_ONCE: break; time.sleep(POLL_INTERVAL)
AfterCycle ==
    /\ pc = "caught"
    /\ IF pollOnce
       THEN pc' = "done" /\ now' = now
       ELSE pc' = "main" /\ now' = now + POLL_INTERVAL * SEC
    /\ UNCHANGED <<cfg, tzOff, hist, obs, source, landing, flat, phase, skip, total,
                   params, attempt, wm, dbwm, cycles, cycleErr, synced, fetchLog, sunk,
                   result, pageLog, onlyTransient, lastResp, lastSleep, landingAtPage,
                   lastMerge, httpOut>>

Init ==
    /\ batchSize \in BatchSizes
    /\ loadMode \in LoadModes
    /\ pollOnce \in BOOLEAN
    /\ tzOff = 0
    /\ source \in CycleDatasets
    /\ now = At(10, 6, 0, 0, 0)
    /\ landing = {}
    /\ flat = {}
    /\ pc = "main"
    /\ phase = "none"
    /\ skip = 0
    /\ total = 0
    /\ params = PageParams("none", 0, batchSize, <<>>)
    /\ attempt = 1
    /\ wm = <<>>
    /\ dbwm = NULL
    /\ cycles = 0
    /\ cycleErr = "none"
    /\ synced = FALSE
    /\ pageLog = <<>>
    /\ onlyTransient = FALSE
    /\ fetchLog = <<>>
    /\ sunk = <<>>
    /\ result = -1
    /\ lastResp = NoResp
    /\ lastSleep = NoSleep
    /\ landingAtPage = {}
    /\ lastMerge = NoMerge
    /\ lastBatch = <<>>
    /\ afterOnce = {}
    /\ reps = 0
    /\ httpOut = "pending"
    /\ proj = NoProj
    /\ trace = NoTrace
    /\ inst = NoInst

Next ==
    \/ StartCycle
    \/ \E st \in RateStatus, h \in CycleHints, j \in CycleJitters : RespRate(st, h, j)
    \/ \E st \in ServerStatus, j \in CycleJitters : RespServer(st, j)
    \/ \E st \in ClientStatus, j \in CycleJitters : RespClient(st, j)
    \/ \E j \in CycleJitters : RespNetErr(j)
    \/ \E j \in CycleJitters : RespMalformed(j)
    \/ RespOk
    \/ \E sh \in Shapes : RespOther(sh)
    \/ \E off \in TzOffsets : ResolveWatermark(off)
    \/ Sync
    \/ AfterCycle

\* main() from process start, over every configuration and data set
Spec == Init /\ [][Next]_vars

\* one record a page, so that every fetch pages
InitLive == Init /\ batchSize = 1

\* main() never stalling: every request is answered or times out, every
\* sleep ends
SpecLive == InitLive /\ [][Next]_vars /\ WF_vars(Next)

----------------------------------------------------------------------------
(* One fetch, from its first request to its return or its exception *)

InitFetch ==
    /\ batchSize \in BatchSizes
    /\ loadMode = "upsert"
    /\ pollOnce = TRUE
    /\ tzOff = 0
    /\ source \in Datasets
    /\ now = At(10, 6, 0, 0, 0)
    /\ landing = {}
    /\ flat = {}
    /\ pc = "fetch"
    /\ phase \in {"full", "incr"}
    /\ skip = 0
    /\ total = 0
    /\ dbwm = NULL
    /\ wm = IF phase = "incr" THEN Watermark(NULL, now, 0) ELSE <<>>
    /\ params = PageParams(phase, 0, batchSize, wm)
    /\ attempt = 1
    /\ cycles = 1
    /\ cycleErr = "none"
    /\ synced = FALSE
    /\ pageLog = <<>>
    /\ onlyTransient = FALSE
    /\ fetchLog = <<0>>
    /\ sunk = <<>>
    /\ result = -1
    /\ lastResp = NoResp
    /\ lastSleep = NoSleep
    /\ landingAtPage = {}
    /\ lastMerge = NoMerge
    /\ lastBatch = <<>>
    /\ afterOnce = {}
    /\ reps = 0
    /\ httpOut = "pending"
    /\ proj = NoProj
    /\ trace = NoTrace
    /\ inst = NoInst

NextFetch ==
    \/ \E st \in RateStatus, h \in Hints, j \in Jitters : RespRate(st, h, j)
    \/ \E st \in ServerStatus, j \in Jitters : RespServer(st, j)
    \/ \E st \in ClientStatus, j \in Jitters : RespClient(st, j)
    \/ \E j \in Jitters : RespNetErr(j)
    \/ \E j \in Jitters : RespMalformed(j)
    \/ RespOk
    \/ \E sh \in Shapes : RespOther(sh)

\* full_dump() on an empty landing, or incremental_from(today's midnight)
SpecFetch == InitFetch /\ [][NextFetch]_vars

----------------------------------------------------------------------------
(* The watermark decision alone, over stored maxima and session offsets *)

WmTimes ==
    { At(8, 12, 0, 0, 0),      \* older than today
      At(9, 23, 30, 0, 0),     \* late yesterday
      At(10, 0, 0, 0, 0),      \* today's midnight
      At(10, 0, 0, 0, 500),    \* half a second into today
      At(10, 2, 0, 0, 0),
      At(10, 5, 0, 0, 250),
      At(11, 1, 0, 0, 0) }
WmNows    == {At(10, 0, 0, 0, 0), At(10, 6, 0, 0, 0), At(10, 23, 59, 59, 999)}
WmOffsets == {0, 120, -300, 330}

\* the landing rows a record of hash h may have left behind
WmRows(h) ==
    {[hash |-> h, raw |-> Rec(h, JNone, "7"), lastrefresh |-> NULL]}
    \cup {[hash |-> h, raw |-> Rec(h, JTs(t), "7"), lastrefresh |-> Ts(t)] : t \in WmTimes}

WmLandings == {a \cup b : a \in {{}} \cup {{r} : r \in WmRows("h1")},
                          b \in {{}} \cup {{r} : r \in WmRows("h2")}}

InitWm ==
    /\ batchSize = 2
    /\ loadMode = "upsert"
    /\ pollOnce = TRUE
    /\ tzOff = 0
    /\ source = <<>>
    /\ now \in WmNows
    /\ landing \in WmLandings
    /\ flat = {}
    /\ pc = "wm"
    /\ phase = "none"
    /\ skip = 0
    /\ total = 0
    /\ params = PageParams("none", 0, batchSize, <<>>)
    /\ attempt = 1
    /\ wm = <<>>
    /\ dbwm = NULL
    /\ cycles = 1
    /\ cycleErr = "none"
    /\ synced = FALSE
    /\ pageLog = <<>>
    /\ onlyTransient = FALSE
    /\ fetchLog = <<>>
    /\ sunk = <<>>
    /\ result = -1
    /\ lastResp = NoResp
    /\ lastSleep = NoSleep
    /\ landingAtPage = {}
    /\ lastMerge = NoMerge
    /\ lastBatch = <<>>
    /\ afterOnce = {}
    /\ reps = 0
    /\ httpOut = "pending"
    /\ proj = NoProj
    /\ trace = NoTrace
    /\ inst = NoInst

NextWm == \E off \in WmOffsets : ResolveWatermark(off)

\* run_cycle at its watermark decision, landing as earlier cycles left it
SpecWm == InitWm /\ [][NextWm]_vars

----------------------------------------------------------------------------
(* The store operations alone, over arbitrary batches *)

StoreTimes == {At(9, 8, 0, 0, 0), At(10, 8, 0, 0, 0)}

\* records a page may carry: with and without hash, lastRefresh absent,
\* empty, a timestamp, or a text that is none
StoreRecords ==
    {Rec("h1", lr, "7") : lr \in {JNone, JEmpty} \cup {JTs(t) : t \in StoreTimes}}
    \cup { Rec("h2", JNone, "7"),
           Rec("h2", JTs(At(10, 8, 0, 0, 0)), "7"),
           Rec(NoHash, JTs(At(10, 8, 0, 0, 0)), "7"),
           Rec("", JTs(At(9, 8, 0, 0, 0)), "7"),
           Rec("h1", JBad, "7") }

\* the landing rows merges of such records leave for hash h: the raw
\* document merged last, and its timestamp or, when it has none, any
\* timestamp kept from before
StoreRows(h) ==
    {[hash |-> h, raw |-> r, lastrefresh |-> lr] :
        r \in {x \in StoreRecords : x.hash = h /\ x.lastRefresh # JBad},
        lr \in {NULL} \cup {Ts(t) : t \in StoreTimes}}

StartLandings ==
    {a \cup b :
        a \in {{}} \cup {{x} : x \in {y \in StoreRows("h1") :
                    y.raw.lastRefresh.k = "ts" => y.lastrefresh = Ts(y.raw.lastRefresh.t)}},
        b \in {{}} \cup {{x} : x \in {y \in StoreRows("h2") :
                    y.raw.lastRefresh.k = "ts" => y.lastrefresh = Ts(y.raw.lastRefresh.t)}}}

Batches == SeqsUpTo(StoreRecords, MaxBatch) \ {<<>>}

InitStore ==
    /\ batchSize = 2
    /\ loadMode = "upsert"
    /\ pollOnce = TRUE
    /\ tzOff = 0
    /\ source = <<>>
    /\ now = At(10, 6, 0, 0, 0)
    /\ landing = {}
    /\ flat = {}
    /\ pc = "store"
    /\ phase = "none"
    /\ skip = 0
    /\ total = 0
    /\ params = PageParams("none", 0, batchSize, <<>>)
    /\ attempt = 1
    /\ wm = <<>>
    /\ dbwm = NULL
    /\ cycles = 0
    /\ cycleErr = "none"
    /\ synced = FALSE
    /\ pageLog = <<>>
    /\ onlyTransient = FALSE
    /\ fetchLog = <<>>
    /\ sunk = <<>>
    /\ result = -1
    /\ lastResp = NoResp
    /\ lastSleep = NoSleep
    /\ landingAtPage = {}
    /\ lastMerge = NoMerge
    /\ lastBatch = <<>>
    /\ afterOnce = {}
    /\ reps = 0
    /\ httpOut = "pending"
    /\ proj = NoProj
    /\ trace = NoTrace
    /\ inst = NoInst

InitMerge ==
    /\ batchSize = 2
    /\ loadMode = "upsert"
    /\ pollOnce = TRUE
    /\ tzOff = 0
    /\ source = <<>>
    /\ now = At(10, 6, 0, 0, 0)
    /\ landing \in StartLandings
    /\ flat = {}
    /\ pc = "store"
    /\ phase = "none"
    /\ skip = 0
    /\ total = 0
    /\ params = PageParams("none", 0, batchSize, <<>>)
    /\ attempt = 1
    /\ wm = <<>>
    /\ dbwm = NULL
    /\ cycles = 0
    /\ cycleErr = "none"
    /\ synced = FALSE
    /\ pageLog = <<>>
    /\ onlyTransient = FALSE
    /\ fetchLog = <<>>
    /\ sunk = <<>>
    /\ result = -1
    /\ lastResp = NoResp
    /\ lastSleep = NoSleep
    /\ landingAtPage = {}
    /\ lastMerge = NoMerge
    /\ lastBatch \in Batches
    /\ afterOnce = {}
    /\ reps = 0
    /\ httpOut = "pending"
    /\ proj = NoProj
    /\ trace = NoTrace
    /\ inst = NoInst

\* upsert_landing(b)
MergeBatch(b) ==
    /\ pc = "store"
    /\ LET u == upsert_landing(landing, b)
       IN  /\ landing' = u.landing
           /\ lastMerge' = [given |-> Len(b), n |-> u.n]
    /\ UNCHANGED <<cfg, tzOff, fetch, obs, source, now, flat, pc, wm, dbwm, cycles,
                   cycleErr, synced>>

\* upsert_landing(lastBatch), the first time
MergeFirst ==
    /\ reps = 0
    /\ MergeBatch(lastBatch)
    /\ afterOnce' = landing'
    /\ reps' = 1
    /\ UNCHANGED lastBatch

\* upsert_landing(lastBatch) once more
ReMerge ==
    /\ reps >= 1
    /\ reps <= MaxReps
    /\ MergeBatch(lastBatch)
    /\ reps' = reps + 1
    /\ UNCHANGED <<lastBatch, afterOnce>>

\* upsert_landing(b), the batch not remembered
StoreMerge(b) ==
    /\ MergeBatch(b)
    /\ UNCHANGED hist

\* sync_flat_from_landing()
Project ==
    /\ pc = "store"
    /\ flat' = sync_flat_from_landing(landing, flat).flat
    /\ proj' = ProjRun(landing, flat, proj)
    /\ synced' = TRUE
    /\ UNCHANGED <<cfg, tzOff, fetch, hist, trace, inst, source, now, landing, pc, wm,
                   dbwm, cycles, cycleErr, lastMerge>>

\* truncate_if_replace() in replace mode
Truncate ==
    /\ pc = "store"
    /\ landing' = truncate_if_replace("replace", landing, flat).landing
    /\ flat' = truncate_if_replace("replace", landing, flat).flat
    /\ proj' = NoProj
    /\ UNCHANGED <<cfg, tzOff, fetch, hist, trace, inst, source, now, pc, wm, dbwm,
                   cycles, cycleErr, synced, lastMerge>>

NextMerge ==
    \/ MergeFirst
    \/ ReMerge

\* one batch merged again and again into a landing earlier merges left
SpecMerge == InitMerge /\ [][NextMerge]_vars

NextStore ==
    \/ \E b \in Batches : StoreMerge(b)
    \/ Project
    \/ Truncate

\* merges, projector runs and resets in any order
SpecStore == InitStore /\ [][NextStore]_vars

----------------------------------------------------------------------------
(* The projector over a flat that lost or garbled rows *)

\* what may stand in flat for landing row l: the row itself, its typed
\* columns garbled, its raw snapshot another document, or both
CorruptRows(l) ==
    {[hash |-> l.hash, lastrefresh |-> l.lastrefresh, cols |-> c, raw |-> r] :
        c \in {ProjectCols(l.raw), "garbled"},
        r \in {l.raw, Rec(l.hash, l.raw.lastRefresh, "stale")}}

\* the flat tables over land: per landing row nothing, or one of CorruptRows
RECURSIVE CorruptFlats(_)
CorruptFlats(land) ==
    IF land = {} THEN {{}}
    ELSE LET l == CHOOSE x \in land : TRUE
         IN  {a \cup b : a \in {{}} \cup {{x} : x \in CorruptRows(l)},
                          b \in CorruptFlats(land \ {l})}

InitRepair ==
    /\ batchSize = 2
    /\ loadMode = "upsert"
    /\ pollOnce = TRUE
    /\ tzOff = 0
    /\ source = <<>>
    /\ now = At(10, 6, 0, 0, 0)
    /\ landing \in StartLandings
    /\ flat \in CorruptFlats(landing)
    /\ pc = "store"
    /\ phase = "none"
    /\ skip = 0
    /\ total = 0
    /\ params = PageParams("none", 0, batchSize, <<>>)
    /\ attempt = 1
    /\ wm = <<>>
    /\ dbwm = NULL
    /\ cycles = 0
    /\ cycleErr = "none"
    /\ synced = FALSE
    /\ pageLog = <<>>
    /\ onlyTransient = FALSE
    /\ fetchLog = <<>>
    /\ sunk = <<>>
    /\ result = -1
    /\ lastResp = NoResp
    /\ lastSleep = NoSleep
    /\ landingAtPage = {}
    /\ lastMerge = NoMerge
    /\ lastBatch = <<>>
    /\ afterOnce = {}
    /\ reps = 0
    /\ httpOut = "pending"
    /\ proj = NoProj
    /\ trace = NoTrace
    /\ inst = NoInst

NextRepair == Project

\* sync_flat_from_landing() run, with no fetch, over a damaged flat
SpecRepair == InitRepair /\ [][NextRepair]_vars

----------------------------------------------------------------------------
(* Two instances of main(), upsert mode, on one landing/flat pair *)

TwoRecords ==
    { Rec("h1", JTs(At(9, 8, 0, 0, 0)), "7"),
      Rec("h1", JTs(At(10, 8, 0, 0, 0)), "8"),
      Rec("h1", JNone, "9"),
      Rec("h2", JTs(At(10, 8, 0, 0, 0)), "7"),
      Rec(NoHash, JTs(At(10, 8, 0, 0, 0)), "7") }

TwoBatches == SeqsUpTo(TwoRecords, MaxBatch) \ {<<>>}

InitTwo ==
    /\ batchSize = 2
    /\ loadMode = "upsert"
    /\ pollOnce = FALSE
    /\ tzOff = 0
    /\ source = <<>>
    /\ now = At(10, 6, 0, 0, 0)
    /\ landing = {}
    /\ flat = {}
    /\ pc = "double"
    /\ phase = "none"
    /\ skip = 0
    /\ total = 0
    /\ params = PageParams("none", 0, batchSize, <<>>)
    /\ attempt = 1
    /\ wm = <<>>
    /\ dbwm = NULL
    /\ cycles = 0
    /\ cycleErr = "none"
    /\ synced = FALSE
    /\ pageLog = <<>>
    /\ onlyTransient = FALSE
    /\ fetchLog = <<>>
    /\ sunk = <<>>
    /\ result = -1
    /\ lastResp = NoResp
    /\ lastSleep = NoSleep
    /\ landingAtPage = {}
    /\ lastMerge = NoMerge
    /\ lastBatch = <<>>
    /\ afterOnce = {}
    /\ reps = 0
    /\ httpOut = "pending"
    /\ proj = NoProj
    /\ trace = NoTrace
    /\ inst = [i \in {1, 2} |-> [pc |-> "idle", pages |-> 0]]

\* what a step of instance i leaves alone besides the stores
TwoFrame ==
    UNCHANGED <<cfg, tzOff, fetch, hist, proj, trace, source, now, pc, wm, dbwm,
                cycles, cycleErr, synced, lastMerge>>

\* instance i: main() calls run_cycle(); upsert mode truncates nothing
InstStart(i) ==
    /\ pc = "double"
    /\ inst[i].pc = "idle"
    /\ inst' = [inst EXCEPT ![i] = [pc |-> "fetch", pages |-> 0]]
    /\ UNCHANGED <<landing, flat>>
    /\ TwoFrame

\* instance i: a page arrived, upsert_landing(b) as one statement; a cast
\* error ends the cycle
InstMerge(i, b) ==
    /\ pc = "double"
    /\ inst[i].pc = "fetch"
    /\ inst[i].pages < MaxPages
    /\ LET u == upsert_landing(landing, b)
       IN  /\ landing' = u.landing
           /\ inst' = [inst EXCEPT ![i] =
                          IF u.err THEN [pc |-> "idle", pages |-> @.pages]
                          ELSE [pc |-> "fetch", pages |-> @.pages + 1]]
    /\ UNCHANGED flat
    /\ TwoFrame

\* instance i: its fetches returned (ok), or one raised and main() caught it
InstFetchEnd(i, ok) ==
    /\ pc = "double"
    /\ inst[i].pc = "fetch"
    /\ inst' = [inst EXCEPT ![i].pc = IF ok THEN "sync" ELSE "idle"]
    /\ UNCHANGED <<landing, flat>>
    /\ TwoFrame

\* instance i: sync_flat_from_landing() as one statement, the cycle is over
InstSync(i) ==
    /\ pc = "double"
    /\ inst[i].pc = "sync"
    /\ flat' = sync_flat_from_landing(landing, flat).flat
    /\ inst' = [inst EXCEPT ![i].pc = "idle"]
    /\ UNCHANGED landing
    /\ TwoFrame

NextTwo ==
    \/ \E i \in {1, 2} : InstStart(i)
    \/ \E i \in {1, 2}, b \in TwoBatches : InstMerge(i, b)
    \/ \E i \in {1, 2}, ok \in BOOLEAN : InstFetchEnd(i, ok)
    \/ \E i \in {1, 2} : InstSync(i)

\* the statements of two looping instances interleaved in any order
SpecTwo == InitTwo /\ [][NextTwo]_vars

----------------------------------------------------------------------------
(* Claims *)

\* C7: the watermark used for the incremental pass is never earlier, as a
\* point in time, than 00:00:00 UTC of the current UTC day, whatever the
\* stored MAX(lastrefresh) and whatever form its ISO rendering takes.
C7_WatermarkNotBeforeToday ==
    wm # <<>> => ParseIso(wm) >= TodayStart(now)

\* C8: the resolved watermark is max(dbMax, todayStart) compared as
\* timestamps: dbMax when it is the later instant, todayStart otherwise
\* and when dbMax is null.
C8_WatermarkIsTimestampMax ==
    wm # <<>> =>
        ParseIso(wm) = IF dbwm # NULL /\ dbwm.t > TodayStart(now)
                       THEN dbwm.t ELSE TodayStart(now)

\* C9: upsert_landing is idempotent: merging a batch N >= 1 times leaves
\* landing in exactly the state reached by merging it once, for every
\* starting landing and every batch.
C9_MergeIdempotent ==
    reps >= 1 => landing = afterOnce

\* C9 witness: a batch that repeats a hash, its second record without a
\* lastRefresh, merged into a non-empty result more than once.
C9_Witness ==
    /\ reps >= 2
    /\ Len(lastBatch) >= 2
    /\ lastBatch[1].hash = lastBatch[2].hash
    /\ lastBatch[1].lastRefresh.k = "ts"
    /\ lastBatch[2].lastRefresh = JNone
    /\ landing # {}

\* C10: no row of landing or flat has a missing or empty hash.
C10_HashGating ==
    \A r \in landing \cup flat : r.hash # NoHash /\ r.hash # ""

\* C10 witness: a batch with a record without hash was merged (fewer rows
\* stored than given) and the projector has filled flat from landing.
C10_Witness ==
    /\ lastMerge.given > lastMerge.n
    /\ lastMerge.n >= 1
    /\ landing # {}
    /\ {r.hash : r \in flat} = {r.hash : r \in landing}

\* C1 (as claimed): a 4xx other than 429, or an unparseable body, reaches
\* the caller at once: the fetch has ended in the error, with no backoff
\* sleep after that response and no further request for the page.
C1_NonRetryableSurfaces ==
    lastResp.kind \in {"client", "malformed"} =>
        /\ pc = "caught"
        /\ cycleErr # "none"
        /\ lastSleep = NoSleep
        /\ Len(pageLog) = lastResp.attempt

\* C2: when all MAX_RETRIES attempts for a page failed transiently, the
\* fetch has ended in an error that left run_cycle: the failed page is the
\* last one asked for, landing is as it was when the page was first asked
\* for, and the projection of that cycle has not run.
C2_ExhaustedRetriesAbortCycle ==
    (Len(pageLog) = MAX_RETRIES /\ onlyTransient) =>
        /\ pc \in {"caught", "main", "done"}
        /\ cycleErr # "none"
        /\ ~synced
        /\ landing = landingAtPage
        /\ fetchLog[Len(fetchLog)] = pageLog[1].skip

\* C2 witness: the second page of the incremental pass, after a full dump
\* that stored rows, fails five times, the last time with a 5xx status.
C2_Witness ==
    /\ Len(pageLog) = MAX_RETRIES
    /\ onlyTransient
    /\ lastResp.kind \in {"rate", "server"}
    /\ phase = "incr"
    /\ pageLog[1].skip > 0
    /\ landing # {}
    /\ pc = "caught"

\* C3: a page gets at most MAX_RETRIES requests, every one with the params
\* of the first; and a step of the fetch loop changes skip only when it
\* received a page.
C3_BoundedIdenticalRetries ==
    /\ [](/\ Len(pageLog) <= MAX_RETRIES
          /\ \A i \in 1..Len(pageLog) : pageLog[i] = pageLog[1])
    /\ [][skip' # skip => lastResp'.kind = "ok" /\ lastResp'.attempt = attempt]_vars

\* C3 witness: five requests for the second page of a filtered fetch.
C3_Witness ==
    /\ Len(pageLog) = MAX_RETRIES
    /\ pageLog[MAX_RETRIES].skip > 0
    /\ pageLog[MAX_RETRIES].filter # <<>>
    /\ skip = pageLog[1].skip

\* what _sleep_backoff may sleep without a hint on attempt a: 2^a plus a
\* jitter within [0, 1] s, capped at 60 s (tenths of a second)
ExpDelays(a) == {Min(600, Pow2(a) * 10 + j) : j \in 0..10}

\* the request a retry of the latest page is about to send is the one sent
RetryPending ==
    /\ pc = "fetch"
    /\ attempt = lastResp.attempt + 1
    /\ params = pageLog[Len(pageLog)]

\* C4 (as claimed): after a 429/503 with Retry-After of s > 0 seconds the
\* fetcher has slept exactly s seconds and is about to retry the identical
\* request; with the hint absent or zero it slept the exponential delay.
C4_HintThenRetry ==
    lastResp.kind = "rate" =>
        /\ (lastResp.hint.k = "int" /\ lastResp.hint.v > 0) =>
              /\ lastSleep = [kind |-> "hint", ds |-> lastResp.hint.v * 10]
              /\ RetryPending
        /\ (lastResp.hint.k = "absent" \/ lastResp.hint = HintSecs(0)) =>
              /\ lastSleep.kind = "exp"
              /\ lastSleep.ds \in ExpDelays(lastResp.attempt)

\* C4 (amended): as claimed, but the retry follows only while fewer than
\* MAX_RETRIES requests were made for the page; after the MAX_RETRIES-th
\* the fetcher still sleeps s seconds and then makes no further request.
C4_HintThenRetryWithinBudget ==
    lastResp.kind = "rate" =>
        /\ (lastResp.hint.k = "int" /\ lastResp.hint.v > 0) =>
              /\ lastSleep = [kind |-> "hint", ds |-> lastResp.hint.v * 10]
              /\ lastResp.attempt < MAX_RETRIES => RetryPending
              /\ lastResp.attempt = MAX_RETRIES => pc = "caught"
        /\ (lastResp.hint.k = "absent" \/ lastResp.hint = HintSecs(0)) =>
              /\ lastSleep.kind = "exp"
              /\ lastSleep.ds \in ExpDelays(lastResp.attempt)

\* C4 witness: a 429 with Retry-After: 10 on the first attempt of a page
\* beyond the first; 10 s slept, the same request about to go out again.
C4_Witness ==
    /\ lastResp.kind = "rate"
    /\ lastResp.status = 429
    /\ lastResp.hint = HintSecs(10)
    /\ lastResp.attempt = 1
    /\ lastSleep.ds = 100
    /\ params.skip > 0
    /\ RetryPending

\* C5: every request carries top = min(BATCH_SIZE, 1000), never above 1000.
C5_TopClamped ==
    \A i \in 1..Len(pageLog) :
        /\ pageLog[i].top = (IF batchSize < 1000 THEN batchSize ELSE 1000)
        /\ pageLog[i].top <= 1000

\* C5 witness: BATCH_SIZE 5000, a request sent with top 1000.
C5_Witness ==
    /\ batchSize = 5000
    /\ Len(pageLog) >= 1
    /\ pageLog[1].top = 1000

AllHashed(sq) == \A i \in 1..Len(sq) : sq[i].hash # NoHash /\ sq[i].hash # ""

\* the fetch has returned, its last response a page of the source
FetchReturned == pc \in {"wm", "sync"} /\ lastResp.kind = "ok"

\* C6: over a static source whose N records all carry a hash, a fetch with
\* page size p asks for offsets 0, p, 2p, ..., hands every record to the
\* merger exactly once and in order, returns N, and stops with the first
\* page shorter than p (the empty page when the last one was full): N \div p
\* + 1 pages in all.
C6_PagingExact ==
    (FetchReturned /\ AllHashed(source)) =>
        LET rs == ResultSet(source, params)
            p  == params.top
        IN  /\ result = Len(rs)
            /\ sunk = rs
            /\ skip = Len(rs)
            /\ fetchLog = [i \in 1..((Len(rs) \div p) + 1) |-> (i - 1) * p]

\* C6 witness: three records, page size two: pages 2/1, offsets 0 and 2.
C6_Witness ==
    /\ FetchReturned
    /\ AllHashed(source)
    /\ Len(source) = 3
    /\ params.top = 2
    /\ phase = "full"
    /\ result = 3
    /\ fetchLog = <<0, 2>>

\* C20 (as claimed): an http_get call ends in one of two ways, the parsed
\* body of a response or an exception; it never returns None.
C20_BodyOrRaise ==
    httpOut \in {"pending", "body", "raised"}

\* a timestamp column value a is not older than b: a known value never
\* gives way to an older one or to NULL
NotOlder(a, b) == b # NULL => (a # NULL /\ a.t >= b.t)

\* C11 (as claimed): a merge never lowers the stored landing.lastrefresh of
\* a hash and never erases it (rows a reset removed are not compared).
C11_LandingKeepsNewer ==
    [][\A r \in landing, q \in landing' :
          r.hash = q.hash => NotOlder(q.lastrefresh, r.lastrefresh)]_vars

\* C12: no merge and no projector run makes flat.lastrefresh of a hash less
\* than it was (rows a reset removed are not compared).
C12_FlatRefreshMonotonic ==
    [][\A f \in flat, g \in flat' :
          f.hash = g.hash => NotOlder(g.lastrefresh, f.lastrefresh)]_vars

\* C12 witness: the projector has run over a landing whose row of a hash
\* carries an older timestamp than the flat row had, and flat kept its own.
C12_Witness ==
    /\ proj.op = "sync"
    /\ proj.land = landing
    /\ \E l \in landing, b \in proj.before, f \in flat :
          /\ l.hash = b.hash
          /\ f.hash = b.hash
          /\ l.lastrefresh # NULL
          /\ b.lastrefresh # NULL
          /\ l.lastrefresh.t < b.lastrefresh.t
          /\ f = b

\* C13: every hash of flat has a landing row, in every state: after the
\* reset of replace mode and after a cycle an error ended as well.
C13_FlatHashInLanding ==
    \A f \in flat : \E l \in landing : l.hash = f.hash

\* C13 witness: replace mode, the second cycle: both stores were reset
\* after a cycle that had filled flat, the full dump stored rows again, and
\* an error ended the cycle before its projection.
C13_Witness ==
    /\ loadMode = "replace"
    /\ cycles = 2
    /\ pc = "caught"
    /\ cycleErr # "none"
    /\ ~synced
    /\ landing # {}
    /\ flat = {}

\* landing timestamp a is greater than flat timestamp b, a NULL b counting
\* as less than any value
GreaterNullLow(a, b) == a # NULL /\ (b = NULL \/ a.t > b.t)

\* the rows a projector run is to select from land, given flat fl: absent
\* from fl, or of a greater timestamp than fl's
DueRows(land, fl) ==
    {l \in land :
        \/ ~ \E f \in fl : f.hash = l.hash
        \/ \E f \in fl : f.hash = l.hash /\ GreaterNullLow(l.lastrefresh, f.lastrefresh)}

\* C14 (as claimed): after a projector run every landing row that was
\* absent from flat, or whose lastrefresh was greater than flat's (a NULL in
\* flat counting as less), stands in flat as its projection.
C14_NullFlatCountsAsLess ==
    proj.op = "sync" =>
        \A l \in DueRows(proj.land, proj.before) : FlatRow(l) \in flat

\* C15: a projector run leaves every flat row unchanged whose landing row
\* is not strictly newer, every row it wrote is the projection of a landing
\* row that was absent from flat or strictly newer, and a run right after
\* another over an unchanged landing writes zero rows.
C15_ProjectorFrame ==
    proj.op = "sync" =>
        /\ \A b \in proj.before :
              (~ \E l \in proj.land : /\ l.hash = b.hash
                                      /\ l.lastrefresh # NULL
                                      /\ b.lastrefresh # NULL
                                      /\ l.lastrefresh.t > b.lastrefresh.t)
              => b \in flat
        /\ \A f \in flat \ proj.before :
              \E l \in DueRows(proj.land, proj.before) : f = FlatRow(l)
        /\ proj.runs >= 2 => (proj.changed = 0 /\ flat = proj.before)

\* C15 witness: a run that rewrote one flat row from a newer landing row
\* and left another flat row, whose landing row was not newer, as it was.
C15_Witness ==
    /\ proj.op = "sync"
    /\ proj.changed = 1
    /\ \E b1 \in proj.before, b2 \in proj.before :
          /\ b1.hash # b2.hash
          /\ b1 \notin flat
          /\ b2 \in flat
          /\ \E f \in flat : f.hash = b1.hash /\ f.lastrefresh.t > b1.lastrefresh.t

\* C16 (as claimed): after a projector run over a flat whose hashes were
\* among landing's, flat is exactly the projection of landing.
C16_FlatRederived ==
    proj.op = "sync" => flat = {FlatRow(l) : l \in proj.land}

IsPrefix(a, b) == Len(a) <= Len(b) /\ a = SubSeq(b, 1, Len(a))

\* the steps of a cycle, in order: the reset in replace mode, the full dump
\* when landing was empty, then watermark, incremental pass and projection
CycleSteps(mode, empty) ==
    (IF mode = "replace" THEN <<"truncate">> ELSE <<>>)
        \o (IF empty THEN <<"full">> ELSE <<>>)
        \o <<"wm", "incr", "sync">>

\* C17: the steps a cycle has taken are an initial part of: reset (replace
\* mode only), full dump (iff landing was empty at the bootstrap decision),
\* watermark, incremental pass, projection. In replace mode both stores are
\* empty when the first request goes out, the watermark is read from
\* landing as the bootstrap left it, and a cycle without a failure has
\* taken all of its steps.
C17_CycleOrder ==
    cycles >= 1 =>
        /\ IsPrefix(trace.steps, CycleSteps(loadMode, trace.empty))
        /\ (phase = "full" /\ pc = "fetch" /\ fetchLog = <<0>>) =>
              (landingAtPage = {} /\ (loadMode = "replace" => flat = {}))
        /\ (phase = "incr" /\ pc = "fetch" /\ fetchLog = <<0>>) =>
              (landingAtPage = landing /\ dbwm = db_watermark(landing))
        /\ (pc \in {"caught", "main", "done"} /\ cycleErr = "none") =>
              (trace.steps = CycleSteps(loadMode, trace.empty) /\ synced)

\* C17 witness: a second cycle in upsert mode over a filled landing: no
\* full dump, then watermark, incremental pass and projection, no failure.
C17_Witness ==
    /\ cycles = 2
    /\ loadMode = "upsert"
    /\ pc = "caught"
    /\ cycleErr = "none"
    /\ ~trace.empty
    /\ trace.steps = <<"wm", "incr", "sync">>
    /\ flat # {}

\* C18: single execution starts exactly one cycle and then stops; in
\* looping mode main() never stops, sleeps POLL_INTERVAL after every cycle,
\* and after a cycle that ended in an error the next cycle is started.
C18_LoopSurvivesErrors ==
    /\ [](pollOnce => cycles <= 1)
    /\ [](pc = "done" => (pollOnce /\ cycles = 1))
    /\ (pollOnce ~> (pc = "done" /\ cycles = 1))
    /\ [][(pc = "caught" /\ ~pollOnce)
            => (pc' = "main" /\ now' = now + POLL_INTERVAL * SEC)]_vars
    /\ \A c \in 1..(MaxCycles - 1) :
          (cycles = c /\ pc = "caught" /\ cycleErr # "none" /\ ~pollOnce)
              ~> (cycles = c + 1 /\ trace.prevFailed)

\* C18 witness: looping mode, the second cycle under way one interval
\* after the first, which had ended in an error.
C18_Witness ==
    /\ ~pollOnce
    /\ cycles = 2
    /\ trace.prevFailed
    /\ pc = "fetch"
    /\ now = At(10, 6, 0, 0, 0) + POLL_INTERVAL * SEC

\* C19: with the statements of two upsert-mode instances interleaved,
\* every flat hash has a landing row and no row lacks a hash, in every
\* state, and no statement lowers the flat.lastrefresh of a hash.
C19_DoubleRunSafe ==
    /\ [](/\ \A f \in flat : \E l \in landing : l.hash = f.hash
          /\ \A r \in landing \cup flat : ~ HashMissing(r.hash))
    /\ [][\A f \in flat, g \in flat' :
            f.hash = g.hash => NotOlder(g.lastrefresh, f.lastrefresh)]_vars

\* C19 witness: both instances in mid-cycle, one about to project, the
\* other still merging pages, flat holding a newer timestamp for a hash
\* than the landing row a merge has since lowered.
C19_Witness ==
    /\ inst[1].pc = "sync"
    /\ inst[1].pages >= 1
    /\ inst[2].pc = "fetch"
    /\ inst[2].pages >= 1
    /\ \E f \in flat, l \in landing :
          /\ f.hash = l.hash
          /\ l.lastrefresh # NULL
          /\ f.lastrefresh # NULL
          /\ l.lastrefresh.t < f.lastrefresh.t

====
